---- MODULE Spec2Model ----
(***************************************************************************)
(* State-machine model of src/src/app.rs (samcarey/aetherweave): the solar *)
(* system applet's per-frame callback App::update, its construction       *)
(* (App::default / App::new / Body::orbiting) and the input helper        *)
(* UiExt::get_click.                                                       *)
(*                                                                         *)
(* f32 quantities are modelled as integers extended with NaN and +/-Inf   *)
(* (records [k, v]); the arithmetic operators below follow IEEE-754 for    *)
(* the special values (x/0, Inf*0, Inf-Inf, sqrt of a negative).  Lengths  *)
(* and G*M are in scaled model units; angles are multiples of 90 degrees,  *)
(* for which sine and cosine are integers.                                  *)
(***************************************************************************)
EXTENDS Integers, Sequences, FiniteSets, TLC

VARIABLES bodies, last_update, selected, clock, transform, click, trace

vars == <<bodies, last_update, selected, clock, transform, click, trace>>

----------------------------------------------------------------------------
(* Bounds of the model *)

\* wall-clock seconds the host lets pass
MaxClock == 2
\* input events the host delivers to one frame
MaxEvents == 2

----------------------------------------------------------------------------
(* Option<T> and f32 *)

None == [some |-> FALSE]
Some(x) == [some |-> TRUE, val |-> x]

Fin(n) == [k |-> "fin", v |-> n]
NaN == [k |-> "nan", v |-> 0]
Inf(s) == [k |-> "inf", v |-> s]

Sign(n) == IF n > 0 THEN 1 ELSE IF n < 0 THEN -1 ELSE 0

FNeg(a) ==
    IF a.k = "fin" THEN Fin(-a.v)
    ELSE IF a.k = "inf" THEN Inf(-a.v)
    ELSE NaN

FAdd(a, b) ==
    IF a.k = "nan" \/ b.k = "nan" THEN NaN
    ELSE IF a.k = "fin" /\ b.k = "fin" THEN Fin(a.v + b.v)
    ELSE IF a.k = "inf" /\ b.k = "inf" THEN (IF a.v = b.v THEN a ELSE NaN)
    ELSE IF a.k = "inf" THEN a
    ELSE b

FSub(a, b) == FAdd(a, FNeg(b))

FMul(a, b) ==
    IF a.k = "nan" \/ b.k = "nan" THEN NaN
    ELSE IF a.k = "fin" /\ b.k = "fin" THEN Fin(a.v * b.v)
    ELSE IF Sign(a.v) * Sign(b.v) = 0 THEN NaN
    ELSE Inf(Sign(a.v) * Sign(b.v))

\* quotient truncated toward zero for finite operands
FDiv(a, b) ==
    IF a.k = "nan" \/ b.k = "nan" THEN NaN
    ELSE IF a.k = "inf" /\ b.k = "inf" THEN NaN
    ELSE IF a.k = "inf" THEN Inf(IF b.v < 0 THEN -a.v ELSE a.v)
    ELSE IF b.k = "inf" THEN Fin(0)
    ELSE IF b.v = 0 THEN (IF a.v = 0 THEN NaN ELSE Inf(Sign(a.v)))
    ELSE LET q == (IF a.v < 0 THEN -a.v ELSE a.v) \div (IF b.v < 0 THEN -b.v ELSE b.v)
         IN  Fin(Sign(a.v) * Sign(b.v) * q)

ISqrt(n) == CHOOSE r \in 0..n : r * r <= n /\ (r + 1) * (r + 1) > n

FSqrt(a) ==
    IF a.k = "nan" THEN NaN
    ELSE IF a.k = "inf" THEN (IF a.v > 0 THEN a ELSE NaN)
    ELSE IF a.v < 0 THEN NaN
    ELSE Fin(ISqrt(a.v))

\* a < b on f32: false as soon as either side is NaN
FLt(a, b) ==
    IF a.k = "nan" \/ b.k = "nan" THEN FALSE
    ELSE IF a.k = "fin" /\ b.k = "fin" THEN a.v < b.v
    ELSE IF a.k = "inf" /\ b.k = "inf" THEN a.v < b.v
    ELSE IF a.k = "inf" THEN a.v < 0
    ELSE b.v > 0

vec2(x, y) == [x |-> x, y |-> y]

\* cos and sin of degrees.to_radians(), degrees a multiple of 90
CosDeg(d) == IF d % 360 = 0 THEN 1 ELSE IF d % 360 = 180 THEN -1 ELSE 0
SinDeg(d) == IF d % 360 = 90 THEN 1 ELSE IF d % 360 = 270 THEN -1 ELSE 0

----------------------------------------------------------------------------
(* Constants of the program *)

SIMULATION_SPEED == 60 * 24 * 365

\* G * sun_mass, in model units: chosen so that a body of the roster below has
\* the circular-orbit speed sqrt(G_SUN_MASS / radius) = 8
G_SUN_MASS == 336384000

\* metres per kilometre: radius = orbital_radius_km * 1e3
M_PER_KM == 1000

body_radius == 10

\* the 5. of `body_radius + 5.` in the hit test
HIT_TOLERANCE == 5

----------------------------------------------------------------------------
(* Body::orbiting and App::default *)

orbiting(name, orbital_radius_km, degrees) ==
    LET radius == FMul(Fin(orbital_radius_km), Fin(M_PER_KM))
        position == vec2(FMul(radius, Fin(CosDeg(degrees))),
                         FMul(radius, Fin(SinDeg(degrees))))
        velocity_magnitude == FSqrt(FDiv(Fin(G_SUN_MASS), radius))
        velocity == vec2(FMul(FNeg(velocity_magnitude), Fin(SinDeg(degrees))),
                         FMul(velocity_magnitude, Fin(CosDeg(degrees))))
    IN  [name |-> name, position |-> position, velocity |-> velocity]

\* <<name, orbital_radius_km, degrees>> of each body of the roster, in model
\* units; the central body comes first, with orbital radius 0 and angle 0, and
\* the others start 10 pixels from it in the zoomed-in view
Roster ==
    << <<"Sun", 0, 0>>, <<"Mercury", 5256, 90>>, <<"Venus", 5256, 180>> >>

NumBodies == Len(Roster)
BodyIdx == 0 .. (NumBodies - 1)

DefaultBodies ==
    [i \in BodyIdx |-> orbiting(Roster[i + 1][1], Roster[i + 1][2], Roster[i + 1][3])]

----------------------------------------------------------------------------
(* Body::update_position and the position loop of App::update *)

update_position(body, dt) ==
    LET current_pos == body.position
        current_vel == body.velocity
        new_pos == vec2(FAdd(current_pos.x, FMul(current_vel.x, dt)),
                        FAdd(current_pos.y, FMul(current_vel.y, dt)))
    IN  [body EXCEPT !.position = new_pos]

\* now.duration_since(last_update): Instant is monotonic, the difference
\* saturates at zero
duration_since(now, earlier) == IF now >= earlier THEN now - earlier ELSE 0

scaled_dt(lu, now) == duration_since(now, lu.val) * SIMULATION_SPEED

\* a plausible slip: the loop forgets skip(1) and moves the central body too
AdvanceAllBodies(bs, lu, now) ==
    IF lu.some
    THEN [i \in BodyIdx |-> update_position(bs[i], Fin(scaled_dt(lu, now)))]
    ELSE bs

\* a plausible slip: a missing previous timestamp is read as time zero
AdvanceFromEpoch(bs, lu, now) ==
    LET from == IF lu.some THEN lu ELSE Some(0)
    IN  [i \in BodyIdx |->
            IF i >= 1 THEN update_position(bs[i], Fin(scaled_dt(from, now)))
            ELSE bs[i]]

\* the bodies after `if let Some(last_update) = self.last_update {...}`
Advance(bs, lu, now) ==
    IF lu.some
    THEN [i \in BodyIdx |->
            IF i >= 1 THEN update_position(bs[i], Fin(scaled_dt(lu, now)))
            ELSE bs[i]]
    ELSE bs

AdvanceLog(lu, now) ==
    IF lu.some
    THEN [j \in 1 .. (NumBodies - 1) |->
            [op |-> "update_position", body |-> j, dt |-> scaled_dt(lu, now)]]
    ELSE << >>

----------------------------------------------------------------------------
(* UiExt::get_click *)

IsPrimaryPress(e) ==
    e.type = "PointerButton" /\ e.button = "Primary" /\ e.pressed

\* a plausible slip: the pattern forgets `pressed: true`
IsPrimaryButton(e) ==
    e.type = "PointerButton" /\ e.button = "Primary"

\* the pattern of the find_map closure
ClickPattern(e) == IsPrimaryPress(e)

\* r.events.iter().find_map(..): the position of the first matching event
get_click(evs) ==
    IF \E n \in 1 .. Len(evs) : ClickPattern(evs[n])
    THEN LET first == CHOOSE n \in 1 .. Len(evs) :
                          /\ ClickPattern(evs[n])
                          /\ \A m \in 1 .. (n - 1) : ~ClickPattern(evs[m])
         IN  Some(evs[first].pos)
    ELSE None

----------------------------------------------------------------------------
(* The plot transform and the hit test *)

\* the values of plot.transform, the plot widget's plot-to-screen mapping,
\* the model ranges over: the screen position of the plot origin and the plot
\* units per pixel.  Zoomed in, a body of speed 1 crosses one pixel per second
\* of wall-clock time; zoomed out, the bodies stay within a few pixels of
\* each other.
Transforms ==
    { [cx |-> 400, cy |-> 300, upp |-> SIMULATION_SPEED],
      [cx |-> 400, cy |-> 300, upp |-> 16 * SIMULATION_SPEED] }

\* plot.transform.position_from_point: the screen y axis points down
position_from_point(tr, p) ==
    vec2(FAdd(Fin(tr.cx), FDiv(p.x, Fin(tr.upp))),
         FSub(Fin(tr.cy), FDiv(p.y, Fin(tr.upp))))

\* the square of (a - b).length()
Length2(a, b) ==
    LET dx == FSub(a.x, b.x)
        dy == FSub(a.y, b.y)
    IN  FAdd(FMul(dx, dx), FMul(dy, dy))

HitLimit2 == (body_radius + HIT_TOLERANCE) * (body_radius + HIT_TOLERANCE)

\* a plausible slip: <= instead of <
HitInclusive(center, c) ==
    LET d == Length2(center, c)
    IN  FLt(d, Fin(HitLimit2)) \/ d = Fin(HitLimit2)

\* (center - click).length() < body_radius + 5.
Hit(center, c) == FLt(Length2(center, c), Fin(HitLimit2))

----------------------------------------------------------------------------
(* The body loop of App::update and the selection *)

\* a plausible slip: the loop stops updating the selection at the first match
BodyStepFirstMatch(i, center, c, sel, clicked) ==
    LET highlighted == sel.some /\ sel.val = i
        hit == c.some /\ Hit(center, c.val)
    IN  [highlighted |-> highlighted,
         hit |-> hit,
         selected |-> IF hit /\ ~clicked THEN Some(i) ELSE sel,
         clicked_on_body |-> clicked \/ hit]

\* a plausible slip: the highlight is decided after the selection update
BodyStepHighlightAfter(i, center, c, sel, clicked) ==
    LET hit == c.some /\ Hit(center, c.val)
        sel2 == IF hit THEN Some(i) ELSE sel
    IN  [highlighted |-> sel2.some /\ sel2.val = i,
         hit |-> hit,
         selected |-> sel2,
         clicked_on_body |-> clicked \/ hit]

\* one iteration of `for body_rc in self.bodies.iter()`: the highlight flag
\* the body is painted with, then the selection update
BodyStep(i, center, c, sel, clicked) ==
    LET highlighted == sel.some /\ sel.val = i
        hit == c.some /\ Hit(center, c.val)
    IN  [highlighted |-> highlighted,
         hit |-> hit,
         selected |-> IF hit THEN Some(i) ELSE sel,
         clicked_on_body |-> clicked \/ hit]

RECURSIVE BodyLoop(_, _, _, _, _, _, _)
BodyLoop(i, bs, tr, c, sel, clicked, log) ==
    IF i >= NumBodies
    THEN [selected |-> sel, clicked_on_body |-> clicked, log |-> log]
    ELSE LET center == position_from_point(tr, bs[i].position)
             step == BodyStep(i, center, c, sel, clicked)
             paint == [op |-> "circle_stroke", body |-> i, center |-> center,
                       highlighted |-> step.highlighted]
             pick == IF step.hit THEN << [op |-> "select", body |-> i] >> ELSE << >>
         IN  BodyLoop(i + 1, bs, tr, c, step.selected, step.clicked_on_body,
                      (log \o << paint >>) \o pick)

\* a plausible slip: every click clears the selection
AfterLoopAlwaysClear(c, clicked, sel) == IF c.some THEN None ELSE sel

\* if click.is_some() && !clicked_on_body { self.selected = Default::default() }
AfterLoop(c, clicked, sel) == IF c.some /\ ~clicked THEN None ELSE sel

\* what get_click was given and what it returned: whether the events hold a
\* press of the primary button, whether they hold any other event
InputLog(evs, c) ==
    [op |-> "get_click",
     primary_press |-> \E n \in 1 .. Len(evs) :
                           evs[n].button = "Primary" /\ evs[n].pressed,
     other_event |-> \E n \in 1 .. Len(evs) :
                           ~(evs[n].button = "Primary" /\ evs[n].pressed),
     click |-> c]

AfterLoopLog(c, clicked) ==
    IF c.some /\ ~clicked THEN << [op |-> "deselect"] >> ELSE << >>

PlotLog == [j \in 1 .. NumBodies |-> [op |-> "plot_point", body |-> j - 1]]

OverlayLog(sel) ==
    IF sel.some THEN << [op |-> "stats_window", body |-> sel.val] >> ELSE << >>

\* a plausible slip: the stats window is built before the central panel
FrameTraceOverlayFirst(start, adv, input, plot, loop, post, overlay) ==
    start \o adv \o input \o plot \o overlay \o loop \o post

\* the order of the steps of one call of App::update
FrameTrace(start, adv, input, plot, loop, post, overlay) ==
    start \o adv \o input \o plot \o loop \o post \o overlay

----------------------------------------------------------------------------
(* The state machine *)

\* screen positions the pointer is pressed at in a frame: each body's screen
\* centre and the point body_radius + 5 pixels to the right of the central
\* body's
PointerPositions(bs, tr) ==
    LET sun == position_from_point(tr, bs[0].position)
    IN  { position_from_point(tr, bs[i].position) : i \in BodyIdx }
        \cup { vec2(FAdd(sun.x, Fin(body_radius + HIT_TOLERANCE)), sun.y) }

\* the input events of a frame: a primary press at one of the positions, a
\* secondary press or a primary release on the central body
InputEvents(bs, tr) ==
    LET sun == position_from_point(tr, bs[0].position)
    IN  { [type |-> "PointerButton", button |-> "Primary", pressed |-> TRUE, pos |-> p] :
            p \in PointerPositions(bs, tr) }
        \cup { [type |-> "PointerButton", button |-> "Secondary", pressed |-> TRUE, pos |-> sun],
               [type |-> "PointerButton", button |-> "Primary", pressed |-> FALSE, pos |-> sun] }

EventSeqs(bs, tr) ==
    UNION { [1 .. n -> InputEvents(bs, tr)] : n \in 0 .. MaxEvents }

Init ==
    /\ bodies = DefaultBodies
    /\ last_update = None
    /\ selected = None
    /\ clock = 0
    /\ transform \in Transforms
    /\ click = None
    /\ trace = << >>

\* wall-clock time passes
Tick ==
    /\ clock < MaxClock
    /\ clock' = clock + 1
    /\ UNCHANGED <<bodies, last_update, selected, transform, click, trace>>

\* the user pans or zooms the plot
PanZoom ==
    /\ transform' \in Transforms \ {transform}
    /\ UNCHANGED <<bodies, last_update, selected, clock, click, trace>>

\* one call of App::update at time now, on the input events evs of the
\* frame; moved is Advance(bodies, last_update, now)
Frame(now, moved, evs) ==
    \E c \in {get_click(evs)} :
    \E loop \in {BodyLoop(0, moved, transform, c, selected, FALSE, << >>)} :
    \E sel \in {AfterLoop(c, loop.clicked_on_body, loop.selected)} :
        /\ bodies' = moved
        /\ last_update' = Some(now)
        /\ selected' = sel
        /\ click' = c
        /\ trace' = FrameTrace(
                        << [op |-> "now", last_update |-> last_update, now |-> now] >>,
                        AdvanceLog(last_update, now),
                        << InputLog(evs, c) >>,
                        PlotLog,
                        loop.log,
                        AfterLoopLog(c, loop.clicked_on_body),
                        OverlayLog(sel))
        /\ UNCHANGED <<clock, transform>>

Update ==
    \E moved \in {Advance(bodies, last_update, clock)} :
    \E evs \in EventSeqs(moved, transform) : Frame(clock, moved, evs)

\* App::new: the application is started again.  Skipped fields take their
\* Default values and a deserialized Weak is never upgradable.
Restart ==
    /\ bodies' = DefaultBodies
    /\ last_update' = None
    /\ selected' = None
    /\ click' = None
    /\ trace' = << >>
    /\ UNCHANGED <<clock, transform>>

Next == Tick \/ PanZoom \/ Update \/ Restart

Spec == Init /\ [][Next]_vars

----------------------------------------------------------------------------
(* Reading the trace of the most recent frame *)

Steps(ops) == { n \in DOMAIN trace : trace[n].op \in ops }

Strokes == { trace[n] : n \in Steps({"circle_stroke"}) }

\* the screen centre body b was painted at in the most recent frame
CenterOf(b) == (CHOOSE e \in Strokes : e.body = b).center

\* p lies within body_radius + 5 pixels of the screen centre c
Within(c, p) ==
    /\ c.x.k = "fin" /\ c.y.k = "fin" /\ p.x.k = "fin" /\ p.y.k = "fin"
    /\ (c.x.v - p.x.v) * (c.x.v - p.x.v) + (c.y.v - p.y.v) * (c.y.v - p.y.v) < 15 * 15

FrameRan == trace # << >>

\* the bodies whose screen centre the frame's click is within reach of
HitBodies ==
    IF FrameRan /\ click.some
    THEN { b \in BodyIdx : Within(CenterOf(b), click.val) }
    ELSE {}

Min(S) == CHOOSE x \in S : \A y \in S : x <= y
Max(S) == CHOOSE x \in S : \A y \in S : x >= y

\* a step that leaves a new, non-empty trace is a call of App::update: Tick and
\* PanZoom leave the trace alone, Restart empties it, and a call of update
\* that reproduces the trace it found changes nothing at all
IsFrameStep == trace' # trace /\ trace' # << >>

InputOf(t) == t[CHOOSE n \in DOMAIN t : t[n].op = "get_click"]

----------------------------------------------------------------------------
(* C1 *)

\* C1: a frame whose click is within body_radius + 5 pixels of the screen
\* centre of exactly one body b ends with b selected, whatever was selected
\* before.
C1_ClickOnOneBodySelectsIt ==
    \A b \in BodyIdx : (FrameRan /\ click.some /\ HitBodies = {b}) => selected = Some(b)

\* a click that reaches exactly one body while another body was the selection
C1_Witness ==
    /\ FrameRan /\ click.some
    /\ \E b \in BodyIdx :
        /\ HitBodies = {b}
        /\ selected = Some(b)
        /\ \E e \in Strokes : e.highlighted /\ e.body # b

----------------------------------------------------------------------------
(* C2 *)

\* C2: a frame whose click is at least body_radius + 5 pixels away from the
\* screen centre of every body ends with nothing selected.
C2_ClickOnNoBodyDeselects ==
    (FrameRan /\ click.some /\ HitBodies = {}) => selected = None

\* a click exactly body_radius + 5 pixels from a body and out of reach of all,
\* in a frame that began with a body selected
C2_Witness ==
    /\ FrameRan /\ click.some /\ HitBodies = {}
    /\ selected = None
    /\ \E e \in Strokes : e.highlighted
    /\ \E e \in Strokes :
        /\ e.center.y = click.val.y
        /\ click.val.x.v - e.center.x.v = 15

----------------------------------------------------------------------------
(* C3 *)

\* C3: a frame whose input events hold no press of the primary button leaves
\* the selection as it was.
C3_NoPrimaryPressKeepsSelection ==
    [][(IsFrameStep /\ ~InputOf(trace').primary_press) => selected' = selected]_vars

\* a frame that was given events, none of them a primary press, and painted
\* the selected body highlighted
C3_Witness ==
    /\ FrameRan
    /\ InputOf(trace).other_event /\ ~InputOf(trace).primary_press
    /\ selected.some
    /\ \E e \in Strokes : e.highlighted /\ e.body = selected.val

----------------------------------------------------------------------------
(* C4 *)

\* C4 as stated: when the click is within reach of two or more bodies, the
\* first of them in the iteration order of the body collection is selected.
C4_FirstMatchSelected ==
    (FrameRan /\ click.some /\ Cardinality(HitBodies) >= 2)
        => selected = Some(Min(HitBodies))

\* C4, amended: when the click is within reach of two or more bodies, the last
\* of them in the iteration order of the body collection is selected.
C4_LastMatchSelected ==
    (FrameRan /\ click.some /\ Cardinality(HitBodies) >= 2)
        => selected = Some(Max(HitBodies))

\* a click within reach of several bodies, the nearest of which is not the last
C4_Witness ==
    /\ FrameRan /\ click.some
    /\ Cardinality(HitBodies) >= 2
    /\ selected = Some(Max(HitBodies))
    /\ click.val = CenterOf(Min(HitBodies))

----------------------------------------------------------------------------
(* C5 *)

\* C5 as stated: a click exactly at the screen centre of body b selects b,
\* wherever the other bodies are.
C5_ClickAtCentreSelectsBody ==
    \A b \in BodyIdx :
        (FrameRan /\ click.some /\ click.val = CenterOf(b)) => selected = Some(b)

LaterInReach(b) == { j \in BodyIdx : j > b /\ Within(CenterOf(j), click.val) }

\* C5, amended: a click exactly at the screen centre of body b selects b unless
\* a body later in the iteration order is within reach of the click, and then
\* selects the last such body.
C5_ClickAtCentreSelectsBodyOrLater ==
    \A b \in BodyIdx :
        (FrameRan /\ click.some /\ click.val = CenterOf(b))
        => selected = Some(Max({b} \cup LaterInReach(b)))

\* a click at the centre of a body whose circle an earlier body overlaps, and
\* no later one
C5_Witness ==
    /\ FrameRan /\ click.some
    /\ \E b \in BodyIdx :
        /\ click.val = CenterOf(b)
        /\ LaterInReach(b) = {}
        /\ \E a \in BodyIdx : a < b /\ a \in HitBodies /\ CenterOf(a) # CenterOf(b)
        /\ selected = Some(b)

----------------------------------------------------------------------------
(* C6 *)

Origin == vec2(Fin(0), Fin(0))

\* position p moved by velocity v for dt seconds, in plain integers
MovedBy(p, v, dt) ==
    vec2(Fin(p.x.v + v.x.v * dt), Fin(p.y.v + v.y.v * dt))

\* C6: a frame that has a previous timestamp advances each body but the
\* central one exactly once, by its velocity times elapsed * SIMULATION_SPEED,
\* which is never negative, and leaves the central body where it is: at (0,0).
C6_NonCentralBodiesAdvanceOnce ==
    /\ [][(IsFrameStep /\ last_update.some) =>
            LET dt == (clock - last_update.val) * SIMULATION_SPEED
            IN  /\ dt >= 0
                /\ \A i \in BodyIdx \ {0} :
                    /\ bodies'[i].position = MovedBy(bodies[i].position, bodies[i].velocity, dt)
                    /\ Cardinality({ n \in DOMAIN trace' :
                                        /\ trace'[n].op = "update_position"
                                        /\ trace'[n].body = i }) = 1
                /\ bodies'[0].position = bodies[0].position
                /\ \A n \in DOMAIN trace' :
                    trace'[n].op = "update_position" => trace'[n].body # 0]_vars
    /\ [](bodies[0].position = Origin)

\* a frame that moved the other bodies away from where they were constructed
C6_Witness ==
    /\ FrameRan
    /\ \E n \in Steps({"update_position"}) : trace[n].dt > 0
    /\ \A i \in BodyIdx \ {0} : bodies[i].position # DefaultBodies[i].position
    /\ bodies[0].position = Origin

----------------------------------------------------------------------------
(* C7 *)

\* C7: a frame without a previous timestamp moves no body and records the
\* time; a frame with one integrates over the time since that timestamp only.
C7_FirstFrameDoesNotMove ==
    /\ [][(IsFrameStep /\ ~last_update.some) =>
            /\ bodies' = bodies
            /\ last_update' = Some(clock)
            /\ Steps({"update_position"})' = {}]_vars
    /\ [][(IsFrameStep /\ last_update.some) =>
            /\ last_update' = Some(clock)
            /\ \A n \in Steps({"update_position"})' :
                trace'[n].dt = (clock - last_update.val) * SIMULATION_SPEED]_vars

\* a first frame that ran after wall-clock time had passed
C7_Witness ==
    /\ FrameRan
    /\ ~trace[1].last_update.some
    /\ trace[1].now > 0
    /\ last_update = Some(trace[1].now)
    /\ bodies = DefaultBodies

----------------------------------------------------------------------------
(* C8 *)

\* C8: the central body, constructed with orbital radius 0, has velocity (0,0)
\* from construction on.
C8_CentralBodyVelocityZero == bodies[0].velocity = Origin

----------------------------------------------------------------------------
(* C9 *)

\* every step of the trace with an operation of A comes before every one of B
AllBefore(A, B) == \A m \in Steps(A), n \in Steps(B) : m < n

\* C9 as stated: position advances, then all drawing of bodies with their
\* highlight, then the selection update, then the stats overlay, which shows
\* the selection the frame ends with.
C9_StrictPhaseOrder ==
    /\ AllBefore({"update_position"}, {"plot_point", "circle_stroke"})
    /\ AllBefore({"plot_point", "circle_stroke"}, {"select", "deselect"})
    /\ AllBefore({"select", "deselect"}, {"stats_window"})
    /\ \A n \in Steps({"stats_window"}) : selected = Some(trace[n].body)

\* C9, amended: position advances, then the plot's points, then the body loop,
\* then the stats overlay, which shows the selection the frame ends with; in
\* the body loop each body's highlight stroke is drawn before the hit test of
\* that body updates the selection and after the hit tests of the bodies
\* before it, and a click on no body clears the selection after the loop.
C9_PhaseOrderWithInterleavedLoop ==
    /\ AllBefore({"update_position"}, {"plot_point", "circle_stroke"})
    /\ AllBefore({"plot_point"}, {"circle_stroke", "select", "deselect"})
    /\ \A m \in Steps({"circle_stroke"}), n \in Steps({"select"}) :
        (trace[m].body <= trace[n].body) <=> (m < n)
    /\ AllBefore({"circle_stroke", "select"}, {"deselect"})
    /\ AllBefore({"select", "deselect"}, {"stats_window"})
    /\ \A n \in Steps({"stats_window"}) : selected = Some(trace[n].body)
    /\ selected.some => Steps({"stats_window"}) # {}

\* a frame that advanced the bodies, selected a body by a click before it had
\* painted the last body, and showed the overlay
C9_Witness ==
    /\ Steps({"update_position"}) # {}
    /\ \E m \in Steps({"select"}), n \in Steps({"circle_stroke"}) : m < n
    /\ Steps({"stats_window"}) # {}

----------------------------------------------------------------------------
(* C10 *)

\* C10: in every frame at most one body is painted highlighted.
C10_AtMostOneHighlighted ==
    Cardinality({ e \in Strokes : e.highlighted }) <= 1

\* a frame whose click rewrote the selection more than once and that painted
\* the body selected before it highlighted
C10_Witness ==
    /\ Cardinality(Steps({"select"})) >= 2
    /\ Cardinality({ e \in Strokes : e.highlighted }) = 1

====
